---- MODULE Spec2Model ----
(***************************************************************************)
(* Model of MigrationClient (the migration orchestration state machine).   *)
(*                                                                         *)
(* The client is a JavaScript object driven by async methods.  Every       *)
(* method runs synchronously up to its next network await (fetch), so an   *)
(* action of the model is one such synchronous stretch: the invocation of  *)
(* an entry point up to its first fetch, or the arrival of a response up   *)
(* to the next fetch or the return.  setTimeout continuations are flows of *)
(* their own that interleave with the caller's flow.                       *)
(***************************************************************************)
EXTENDS Integers, Sequences, FiniteSets, Bags, TLC

(***************************************************************************)
(* Bounds of the exploration.                                              *)
(***************************************************************************)
\* number of entry-point invocations explored in one behaviour
MaxCalls == 2
\* number of setTimeout continuations that may be pending or running at once
MaxTimers == 1
\* number of posts of a test account
MaxPosts == 2

(***************************************************************************)
(* Strings of the program.                                                 *)
(***************************************************************************)
Undefined == "undefined"

TokenPrompt == "Enter the token sent to your email to complete identity migration"

StepIndex == 0..3

DefaultNames ==
  [i \in StepIndex |->
     CASE i = 0 -> "Create Account"
       [] i = 1 -> "Migrate Data"
       [] i = 2 -> "Migrate Identity"
       [] i = 3 -> "Finalize Migration"]

\* one pending step, as in the literal of the field initialiser and of the reset
PendingStep(i) ==
  [name |-> DefaultNames[i], status |-> "pending", error |-> Undefined,
   isVerificationError |-> FALSE]

InitialSteps == [i \in StepIndex |-> PendingStep(i)]

(***************************************************************************)
(* Strings as the code sees them: a parameter field is either undefined or *)
(* a sequence of characters; trim() strips the white space at both ends.   *)
(***************************************************************************)
RECURSIVE TrimLeft(_)
TrimLeft(s) ==
  IF s = <<>> THEN s
  ELSE IF Head(s) = " " THEN TrimLeft(Tail(s)) ELSE s

RECURSIVE TrimRight(_)
TrimRight(s) ==
  IF s = <<>> THEN s
  ELSE IF s[Len(s)] = " " THEN TrimRight(SubSeq(s, 1, Len(s) - 1)) ELSE s

Trim(s) == TrimRight(TrimLeft(s))

\* !field?.trim() : undefined, "" and white space only are all falsy
MissingField(v) == IF v = <<Undefined>> THEN TRUE ELSE Trim(v) = <<>>


(***************************************************************************)
(* Inputs of the entry points.                                             *)
(***************************************************************************)
\* values of a required parameter field: undefined, "", " ", "a", " a", "a "
FieldValues == {<<Undefined>>, <<>>, <<" ">>, <<"a">>, <<" ", "a">>, <<"a", " ">>}

InviteValues == {<<Undefined>>, <<"i">>}

AllParams ==
  [service : FieldValues, handle : FieldValues, email : FieldValues,
   password : FieldValues, invite : InviteValues]

RequiredFields(p) == <<p.service, p.handle, p.email, p.password>>

\* the inputs explored: every value of each required field beside plain values of
\* the others, and all fields missing at once
ParamSet ==
  {p \in AllParams :
     \/ \A i, j \in 1..4 :
          i # j => (RequiredFields(p)[i] = <<"a">> \/ RequiredFields(p)[j] = <<"a">>)
     \/ \A i \in 1..4 : RequiredFields(p)[i] = <<Undefined>>}

\* every input whose required fields all hold a character that is no white space
ValidParamSet ==
  {p \in AllParams :
     \A i \in 1..4 : \E n \in 1..Len(RequiredFields(p)[i]) :
       RequiredFields(p)[i][n] \notin {" ", Undefined}}

NoParams ==
  [service |-> <<>>, handle |-> <<>>, email |-> <<>>, password |-> <<>>,
   invite |-> <<Undefined>>]

Tokens == {"", "token"}

(***************************************************************************)
(* Responses of the remote endpoints.  A response of fetch is either a     *)
(* thrown transport error (net) or a status (ok) with a body; a body is    *)
(* its raw text and what JSON.parse makes of it: whether it parses (json), *)
(* its boolean field (success, ready or allowMigration: flag) and its      *)
(* message (message or reason).                                            *)
(***************************************************************************)
Response(net, ok, json, flag, text, message) ==
  [net |-> net, ok |-> ok, json |-> json, flag |-> flag, text |-> text,
   message |-> message]

NoResponse == Response(FALSE, FALSE, FALSE, FALSE, "none", "")

BodyEmpty == [text |-> "", json |-> FALSE, success |-> FALSE, message |-> ""]
BodySuccess == [text |-> "{success:true}", json |-> TRUE, success |-> TRUE, message |-> ""]
BodyFailure ==
  [text |-> "{success:false,message:denied}", json |-> TRUE, success |-> FALSE,
   message |-> "denied"]

Bodies == {BodyEmpty, BodySuccess, BodyFailure}

NetworkError == Response(TRUE, FALSE, FALSE, FALSE, "", "")

AllHttpResponses ==
  {NetworkError} \cup
  {Response(FALSE, ok, b.json, b.success, b.text, b.message) : ok \in BOOLEAN, b \in Bodies}

SuccessResponse == Response(FALSE, TRUE, TRUE, TRUE, BodySuccess.text, "")

\* the answers of /api/migrate/status: flag is data.ready, message data.reason
StatusReady == Response(FALSE, TRUE, TRUE, TRUE, "{ready:true}", "")
AllStatusResponses ==
  { NetworkError,
    Response(FALSE, TRUE, FALSE, FALSE, "", ""),
    StatusReady,
    Response(FALSE, TRUE, TRUE, FALSE, "{ready:false,reason}", "not indexed yet"),
    Response(FALSE, TRUE, TRUE, FALSE, "{ready:false}", "") }

\* the answers of /api/migration-state: text is the state, flag allowMigration
StateUp == Response(FALSE, TRUE, TRUE, TRUE, "up", "")
StateIssue == Response(FALSE, TRUE, TRUE, TRUE, "issue", "degraded")
StateMaintenance == Response(FALSE, TRUE, TRUE, FALSE, "maintenance", "under maintenance")

AllStateResponses ==
  { NetworkError,
    Response(FALSE, FALSE, TRUE, FALSE, "maintenance", "under maintenance"),
    Response(FALSE, TRUE, FALSE, FALSE, "", ""),
    StateUp, StateIssue, StateMaintenance }

\* a MigrationState, and the null that checkMigrationState returns
MigrationState(state, message, allowMigration) ==
  [state |-> state, message |-> message, allowMigration |-> allowMigration]

NullState == MigrationState("null", "", FALSE)

(***************************************************************************)
(* The client object.  A value c of the operators below holds the fields   *)
(* of the MigrationClient (steps, retryAttempts, showContinueAnyway) and   *)
(* what one synchronous stretch of code did besides: the callbacks it      *)
(* invoked (events), the setTimeout continuations it scheduled, and        *)
(* whether it reset the run.                                               *)
(***************************************************************************)
NoStep == [name |-> "", status |-> "", error |-> Undefined, isVerificationError |-> FALSE]

Event(type, index, step, count, flag) ==
  [type |-> type, index |-> index, step |-> step, count |-> count, flag |-> flag]

StepUpdated(index, step) == Event("step-updated", index, step, 0, FALSE)
StateUpdated(st) == Event("state-updated", -1, NoStep, 0, st.allowMigration)
RetryUpdated(index, attempts) == Event("retry-count-updated", index, NoStep, attempts, FALSE)
ShowContinueAnywayChanged(index, show) ==
  Event("override-availability-changed", index, NoStep, 0, show)
IdentityTokenRequired == Event("identity-token-required", -1, NoStep, 0, FALSE)
MigrationComplete == Event("migration-complete", -1, NoStep, 0, FALSE)

Emit(c, ev) == [c EXCEPT !.events = Append(@, ev)]

\* mutant: an update leaves the steps after it as they were
updateStepStatus_keepsHigher(c, index, status, error, isVerificationError) ==
  LET mapped ==
        [i \in StepIndex |->
           IF i = index
             THEN [c.steps[i] EXCEPT !.status = status, !.error = error,
                                     !.isVerificationError = isVerificationError]
             ELSE c.steps[i]]
  IN  Emit([c EXCEPT !.steps = mapped], StepUpdated(index, mapped[index]))

\* mutant: an update without a message keeps the message the step had
updateStepStatus_keepsError(c, index, status, error, isVerificationError) ==
  LET mapped ==
        [i \in StepIndex |->
           IF i = index
             THEN [c.steps[i] EXCEPT !.status = status,
                                     !.error = IF error = Undefined THEN @ ELSE error,
                                     !.isVerificationError = isVerificationError]
             ELSE IF i > index
               THEN [c.steps[i] EXCEPT !.status = "pending", !.error = Undefined,
                                       !.isVerificationError = FALSE]
               ELSE c.steps[i]]
  IN  Emit([c EXCEPT !.steps = mapped], StepUpdated(index, mapped[index]))

\* updateStepStatus(index, status, error, callbacks, isVerificationError)
updateStepStatus(c, index, status, error, isVerificationError) ==
  LET mapped ==
        [i \in StepIndex |->
           IF i = index
             THEN [c.steps[i] EXCEPT !.status = status, !.error = error,
                                     !.isVerificationError = isVerificationError]
             ELSE IF i > index
               THEN [c.steps[i] EXCEPT !.status = "pending", !.error = Undefined,
                                       !.isVerificationError = FALSE]
               ELSE c.steps[i]]
  IN  Emit([c EXCEPT !.steps = mapped], StepUpdated(index, mapped[index]))

(***************************************************************************)
(* What a stretch of code ends with: a fetch it now awaits (pc, with the   *)
(* step k and the caller ctx of verifyStep), or the boolean the entry      *)
(* point returns (pc = "done").  cause names the branch that decided it    *)
(* and verdict the oracle's answer, when the stretch handled one.          *)
(***************************************************************************)
Await(c, pc, k, ctx, sent) ==
  [c |-> c, pc |-> pc, k |-> k, ctx |-> ctx, sent |-> sent, ret |-> FALSE,
   cause |-> "await", verdict |-> "none"]

Done(c, ret, cause) ==
  [c |-> c, pc |-> "done", k |-> 0, ctx |-> "none", sent |-> "none", ret |-> ret,
   cause |-> cause, verdict |-> "none"]

WithVerdict(out, verdict) == [out EXCEPT !.verdict = verdict]

\* mutant: an empty body is thrown as it is, without the default message
TextOr_noDefault(responseText, default) == responseText

\* the message of the Error thrown for a non-OK response: the inner throw of
\* json.message is caught by the bare catch, which throws the raw text instead
TextOr(responseText, default) == IF responseText # "" THEN responseText ELSE default

\* error instanceof Error ? error.message : String(error), for a fetch that threw
\* or a response.json() that could not parse: the text of the exception
FetchFailed == "exception message"
JsonParseFailed == "exception message"


(***************************************************************************)
(* Phase 4 and the verification gate.                                      *)
(***************************************************************************)
\* executeStep4Finalization up to its fetch of /api/migrate/finalize
executeStep4Finalization(c) ==
  Await(updateStepStatus(c, 3, "in-progress", Undefined, FALSE),
        "awaitFinalize", 3, "phase", "finalize")

\* mutant: the callers of verifyStep ignore a failed verification
afterVerify_ignoresVerdict(c, ctx, stepNum, verified, cause) ==
  CASE ctx = "submit" ->
         executeStep4Finalization(updateStepStatus(c, 2, "completed", Undefined, FALSE))
    [] ctx = "phase" /\ stepNum = 3 -> Done(Emit(c, MigrationComplete), TRUE, "complete")
    [] OTHER -> Done(c, TRUE, cause)

\* what the caller of verifyStep does with its result: the executeStepN
\* methods ("phase"), submitIdentityToken ("submit"), retryVerification ("retry")
afterVerify(c, ctx, stepNum, verified, cause) ==
  CASE ctx = "submit" ->
         IF ~verified THEN Done(c, FALSE, cause)
         ELSE executeStep4Finalization(updateStepStatus(c, 2, "completed", Undefined, FALSE))
    [] ctx = "phase" /\ stepNum = 3 ->
         IF ~verified THEN Done(c, FALSE, cause)
         ELSE Done(Emit(c, MigrationComplete), TRUE, "complete")
    [] OTHER -> Done(c, verified, cause)

\* mutant: the verification of the identity step is never skipped
skipVerification_never(stepNum, isManualSubmission) == FALSE

\* the automatic verification of the identity step is skipped
skipVerification(stepNum, isManualSubmission) == stepNum = 2 /\ ~isManualSubmission

\* `${this.baseUrl}/api/migrate/status?step=${stepNum + 1}`
StatusCall(stepNum) ==
  CASE stepNum = 0 -> "status?step=1"
    [] stepNum = 1 -> "status?step=2"
    [] stepNum = 2 -> "status?step=3"
    [] stepNum = 3 -> "status?step=4"

\* verifyStep up to its fetch of /api/migrate/status
verifyStep(c, stepNum, isManualSubmission, ctx) ==
  IF skipVerification(stepNum, isManualSubmission)
    THEN afterVerify(c, ctx, stepNum, FALSE, "skipped")
    ELSE Await(updateStepStatus(c, stepNum, "verifying", Undefined, FALSE),
               "awaitStatus", stepNum, ctx, StatusCall(stepNum))

\* mutant: the continuation into phase 3 is never scheduled
schedulesNextStep_offByOne(stepNum) == stepNum < 1

\* if (stepNum < 3) setTimeout(() => this.continueToNextStep(stepNum + 1), 500)
schedulesNextStep(stepNum) == stepNum < 3

\* mutant: the override is offered on the first failure already
offersContinueAnyway_firstFailure(currentAttempts) == currentAttempts >= 0

\* if (currentAttempts >= 1) this.showContinueAnyway[stepNum] = true
offersContinueAnyway(currentAttempts) == currentAttempts >= 1

\* mutant: a ready verdict resets the counter and leaves the override flag
verifyStepReady_keepsFlag(c, stepNum) ==
  LET c1 == updateStepStatus(c, stepNum, "completed", Undefined, FALSE)
      c2 == [c1 EXCEPT !.retryAttempts[stepNum] = 0]
      c3 == Emit(c2, RetryUpdated(stepNum, 0))
  IN  IF schedulesNextStep(stepNum)
        THEN [c3 EXCEPT !.scheduled = Append(@, stepNum + 1)]
        ELSE c3

\* the branch of verifyStep taken when data.ready is truthy
verifyStepReady(c, stepNum) ==
  LET c1 == updateStepStatus(c, stepNum, "completed", Undefined, FALSE)
      c2 == [c1 EXCEPT !.retryAttempts[stepNum] = 0,
                       !.showContinueAnyway[stepNum] = FALSE]
      c3 == Emit(Emit(c2, RetryUpdated(stepNum, 0)),
                 ShowContinueAnywayChanged(stepNum, FALSE))
  IN  IF schedulesNextStep(stepNum)
        THEN [c3 EXCEPT !.scheduled = Append(@, stepNum + 1)]
        ELSE c3

\* mutant: the continuation is scheduled whatever the oracle answered
verifyStepFailed_stillContinues(c, stepNum, errorMessage) ==
  LET currentAttempts == c.retryAttempts[stepNum]
      c1 == Emit([c EXCEPT !.retryAttempts[stepNum] = currentAttempts + 1],
                 RetryUpdated(stepNum, currentAttempts + 1))
      c2 == IF offersContinueAnyway(currentAttempts)
              THEN Emit([c1 EXCEPT !.showContinueAnyway[stepNum] = TRUE],
                        ShowContinueAnywayChanged(stepNum, TRUE))
              ELSE c1
      c3 == updateStepStatus(c2, stepNum, "error", errorMessage, TRUE)
  IN  IF schedulesNextStep(stepNum)
        THEN [c3 EXCEPT !.scheduled = Append(@, stepNum + 1)]
        ELSE c3

\* the not-ready branch and the catch block of verifyStep: both count an attempt
verifyStepFailed(c, stepNum, errorMessage) ==
  LET currentAttempts == c.retryAttempts[stepNum]
      c1 == Emit([c EXCEPT !.retryAttempts[stepNum] = currentAttempts + 1],
                 RetryUpdated(stepNum, currentAttempts + 1))
      c2 == IF offersContinueAnyway(currentAttempts)
              THEN Emit([c1 EXCEPT !.showContinueAnyway[stepNum] = TRUE],
                        ShowContinueAnywayChanged(stepNum, TRUE))
              ELSE c1
  IN  updateStepStatus(c2, stepNum, "error", errorMessage, TRUE)

\* `${data.reason || "Verification failed"}\nStatus details: ...`
verificationMessage(data) ==
  IF data.message # "" THEN "not indexed yet / Status details"
  ELSE "Verification failed / Status details"

\* verifyStep from the arrival of the status response on
verifyStep_response(c, stepNum, ctx, resp) ==
  IF resp.net
    THEN WithVerdict(afterVerify(verifyStepFailed(c, stepNum, FetchFailed),
                                 ctx, stepNum, FALSE, "statusThrew"), "threw")
  ELSE IF ~resp.json
    THEN WithVerdict(afterVerify(verifyStepFailed(c, stepNum, JsonParseFailed),
                                 ctx, stepNum, FALSE, "statusThrew"), "threw")
  ELSE IF resp.flag
    THEN WithVerdict(afterVerify(verifyStepReady(c, stepNum), ctx, stepNum, TRUE, "ready"),
                     "ready")
  ELSE WithVerdict(afterVerify(verifyStepFailed(c, stepNum, verificationMessage(resp)),
                               ctx, stepNum, FALSE, "notReady"), "notReady")

\* executeStep4Finalization from the arrival of the finalize response on
executeStep4Finalization_response(c, resp) ==
  IF resp.net
    THEN Done(updateStepStatus(c, 3, "error", FetchFailed, FALSE), FALSE, "writeFailed")
  ELSE IF ~resp.ok
    THEN Done(updateStepStatus(c, 3, "error",
                               TextOr(resp.text, "Failed to finalize migration"), FALSE),
              FALSE, "writeFailed")
  ELSE IF ~(resp.json /\ resp.flag)
    THEN Done(updateStepStatus(c, 3, "error",
                               "Invalid response from server during finalization", FALSE),
              FALSE, "writeFailed")
  ELSE verifyStep(updateStepStatus(c, 3, "verifying", Undefined, FALSE), 3, FALSE, "phase")


(***************************************************************************)
(* Phases 1 to 3.                                                          *)
(***************************************************************************)
\* executeStep1CreateAccount up to its fetch of /api/migrate/create
executeStep1CreateAccount(c) ==
  Await(updateStepStatus(c, 0, "in-progress", Undefined, FALSE),
        "awaitCreate", 0, "phase", "create")

\* executeStep1CreateAccount from the arrival of the create response on: an OK
\* response goes on to verification whatever its body says (the throw for
\* success = false is caught and logged)
executeStep1CreateAccount_response(c, resp) ==
  IF resp.net
    THEN Done(updateStepStatus(c, 0, "error", FetchFailed, FALSE), FALSE, "writeFailed")
  ELSE IF ~resp.ok
    THEN Done(updateStepStatus(c, 0, "error",
                               TextOr(resp.text, "Failed to create account"), FALSE),
              FALSE, "writeFailed")
  ELSE verifyStep(updateStepStatus(c, 0, "verifying", Undefined, FALSE), 0, FALSE, "phase")

\* executeStep2DataMigration up to its fetch of /api/migrate/data/repo
executeStep2DataMigration(c) ==
  Await(updateStepStatus(c, 1, "in-progress", Undefined, FALSE),
        "awaitRepo", 1, "phase", "repo")

\* mutant: a failed sub-call is counted as a failed verification
dataMigrationFailed_countsAttempt(c, resp, default) ==
  Done(updateStepStatus([c EXCEPT !.retryAttempts[1] = @ + 1], 1, "error",
                        IF resp.net THEN FetchFailed ELSE TextOr(resp.text, default), FALSE),
       FALSE, "writeFailed")

\* the catch block of executeStep2DataMigration
dataMigrationFailed(c, resp, default) ==
  Done(updateStepStatus(c, 1, "error",
                        IF resp.net THEN FetchFailed ELSE TextOr(resp.text, default), FALSE),
       FALSE, "writeFailed")

\* mutant: the status of the repository response is not looked at
executeStep2DataMigration_repo_ignoresStatus(c, resp) ==
  IF resp.net THEN dataMigrationFailed(c, resp, "Failed to migrate repo")
  ELSE Await(c, "awaitBlobs", 1, "phase", "blobs")

\* executeStep2DataMigration from the arrival of each sub-call's response on
executeStep2DataMigration_repo(c, resp) ==
  IF resp.net \/ ~resp.ok THEN dataMigrationFailed(c, resp, "Failed to migrate repo")
  ELSE Await(c, "awaitBlobs", 1, "phase", "blobs")

\* mutant: the status of the blobs response is not looked at
executeStep2DataMigration_blobs_ignoresStatus(c, resp) ==
  IF resp.net THEN dataMigrationFailed(c, resp, "Failed to migrate blobs")
  ELSE Await(c, "awaitPrefs", 1, "phase", "prefs")

executeStep2DataMigration_blobs(c, resp) ==
  IF resp.net \/ ~resp.ok THEN dataMigrationFailed(c, resp, "Failed to migrate blobs")
  ELSE Await(c, "awaitPrefs", 1, "phase", "prefs")

executeStep2DataMigration_prefs(c, resp) ==
  IF resp.net \/ ~resp.ok THEN dataMigrationFailed(c, resp, "Failed to migrate preferences")
  ELSE verifyStep(updateStepStatus(c, 1, "verifying", Undefined, FALSE), 1, FALSE, "phase")

\* mutant: the guard forgets the completed step
identityAlreadyRequested_inProgressOnly(step) == step.status = "in-progress"

\* the guard against a duplicate identity request
identityAlreadyRequested(step) ==
  step.status = "in-progress" \/ step.status = "completed"

\* executeStep3IdentityMigration up to its fetch of /api/migrate/identity/request
executeStep3IdentityMigration(c) ==
  IF identityAlreadyRequested(c.steps[2])
    THEN Done(c, TRUE, "duplicate")
    ELSE Await(updateStepStatus(c, 2, "in-progress", Undefined, FALSE),
               "awaitIdentityRequest", 2, "phase", "identityRequest")

\* mutant: phase 3 goes on to verify the step instead of waiting for the token
executeStep3IdentityMigration_response_verifies(c, resp) ==
  IF resp.net
    THEN Done(updateStepStatus(c, 2, "error", FetchFailed, FALSE), FALSE, "writeFailed")
  ELSE IF ~resp.ok
    THEN Done(updateStepStatus(c, 2, "error",
                               TextOr(resp.text, "Failed to request identity migration"),
                               FALSE),
              FALSE, "writeFailed")
  ELSE IF ~(resp.json /\ resp.flag)
    THEN Done(updateStepStatus(c, 2, "error",
                               "Invalid response from server during identity request",
                               FALSE),
              FALSE, "writeFailed")
  ELSE LET renamed == [c EXCEPT !.steps[2].name = TokenPrompt]
       IN  verifyStep(Emit(Emit(renamed, StepUpdated(2, renamed.steps[2])),
                           IdentityTokenRequired), 2, TRUE, "phase")

\* executeStep3IdentityMigration from the arrival of the request response on
executeStep3IdentityMigration_response(c, resp) ==
  IF resp.net
    THEN Done(updateStepStatus(c, 2, "error", FetchFailed, FALSE), FALSE, "writeFailed")
  ELSE IF ~resp.ok
    THEN Done(updateStepStatus(c, 2, "error",
                               TextOr(resp.text, "Failed to request identity migration"),
                               FALSE),
              FALSE, "writeFailed")
  ELSE IF ~(resp.json /\ resp.flag)
    THEN Done(updateStepStatus(c, 2, "error",
                               "Invalid response from server during identity request",
                               FALSE),
              FALSE, "writeFailed")
  ELSE LET renamed == [c EXCEPT !.steps[2].name = TokenPrompt]
       IN  Done(Emit(Emit(renamed, StepUpdated(2, renamed.steps[2])), IdentityTokenRequired),
                TRUE, "tokenRequired")

\* continueToNextStep(stepNum)
continueToNextStep(c, stepNum) ==
  CASE stepNum = 1 -> executeStep2DataMigration(c)
    [] stepNum = 2 -> executeStep3IdentityMigration(c)
    [] stepNum = 3 -> executeStep4Finalization(c)
    [] OTHER -> Done(c, TRUE, "nothing")

(***************************************************************************)
(* The public entry points.                                                *)
(***************************************************************************)
\* mutant: an availability request that failed counts as "migration not allowed"
checkMigrationState_failsClosed(resp) ==
  IF ~resp.net /\ resp.ok /\ resp.json
    THEN MigrationState(resp.text, resp.message, resp.flag)
    ELSE MigrationState("maintenance", "Migration state unavailable", FALSE)

\* checkMigrationState: null unless the response is OK and parses
checkMigrationState(resp) ==
  IF ~resp.net /\ resp.ok /\ resp.json
    THEN MigrationState(resp.text, resp.message, resp.flag)
    ELSE NullState

\* mutant: the negation of allowMigration is lost
migrationDisallowed_negationLost(migrationState) ==
  migrationState # NullState /\ migrationState.allowMigration

\* if (migrationState) { ...; if (!migrationState.allowMigration) ... }
migrationDisallowed(migrationState) ==
  migrationState # NullState /\ ~migrationState.allowMigration

\* mutant: the password is not validated
validateParams_skipsPassword(params) ==
  IF MissingField(params.service) THEN "Missing service URL"
  ELSE IF MissingField(params.handle) THEN "Missing handle"
  ELSE IF MissingField(params.email) THEN "Missing email"
  ELSE ""

\* validateParams: the message of the first missing field, or "" when valid
validateParams(params) ==
  IF MissingField(params.service) THEN "Missing service URL"
  ELSE IF MissingField(params.handle) THEN "Missing handle"
  ELSE IF MissingField(params.email) THEN "Missing email"
  ELSE IF MissingField(params.password) THEN "Missing password"
  ELSE ""

\* mutant: the reset forgets the retry counters
startMigration_keepsCounters(c) ==
  Await([c EXCEPT !.showContinueAnyway = [i \in StepIndex |-> FALSE],
                  !.steps = InitialSteps,
                  !.reset = TRUE],
        "awaitState", 0, "phase", "migrationState")

\* startMigration up to its fetch of /api/migration-state: the reset
startMigration(c) ==
  Await([c EXCEPT !.retryAttempts = [i \in StepIndex |-> 0],
                  !.showContinueAnyway = [i \in StepIndex |-> FALSE],
                  !.steps = InitialSteps,
                  !.reset = TRUE],
        "awaitState", 0, "phase", "migrationState")

\* startMigration from the arrival of the migration-state response on
startMigration_response(c, params, resp) ==
  LET migrationState == checkMigrationState(resp)
      c1 == IF migrationState # NullState THEN Emit(c, StateUpdated(migrationState)) ELSE c
  IN  IF migrationDisallowed(migrationState)
        THEN Done(updateStepStatus(c1, 0, "error", migrationState.message, FALSE),
                  FALSE, "disallowed")
      ELSE IF validateParams(params) # ""
        THEN Done(updateStepStatus(c1, 0, "error", validateParams(params), FALSE),
                  FALSE, "invalidParams")
      ELSE executeStep1CreateAccount(c1)

\* submitIdentityToken up to its fetch of /api/migrate/identity/sign
submitIdentityToken(c, token) ==
  IF token = "" THEN Done(c, FALSE, "noToken")
  ELSE Await(c, "awaitSign", 2, "submit", "identitySign")

\* mutant: an OK response is taken for an accepted token whatever its body
submitIdentityToken_response_trustsOk(c, resp) ==
  IF resp.net
    THEN Done(updateStepStatus(c, 2, "error", FetchFailed, FALSE), FALSE, "tokenRejected")
  ELSE IF ~resp.ok
    THEN Done(updateStepStatus(c, 2, "error",
                               TextOr(resp.text, "Failed to complete identity migration"),
                               FALSE),
              FALSE, "tokenRejected")
  ELSE verifyStep(updateStepStatus(c, 2, "verifying", Undefined, FALSE), 2, TRUE, "submit")

\* submitIdentityToken from the arrival of the sign response on
submitIdentityToken_response(c, resp) ==
  IF resp.net
    THEN Done(updateStepStatus(c, 2, "error", FetchFailed, FALSE), FALSE, "tokenRejected")
  ELSE IF ~resp.ok
    THEN Done(updateStepStatus(c, 2, "error",
                               TextOr(resp.text, "Failed to complete identity migration"),
                               FALSE),
              FALSE, "tokenRejected")
  ELSE IF ~(resp.json /\ resp.flag)
    THEN Done(updateStepStatus(c, 2, "error", "Invalid response from server", FALSE),
              FALSE, "tokenRejected")
  ELSE verifyStep(updateStepStatus(c, 2, "verifying", Undefined, FALSE), 2, TRUE, "submit")

\* mutant: the retry runs the step's phase again
retryVerification_rerunsWrite(c, stepIndex) ==
  CASE stepIndex = 0 -> executeStep1CreateAccount(c)
    [] stepIndex = 1 -> executeStep2DataMigration(c)
    [] stepIndex = 2 -> executeStep3IdentityMigration(c)
    [] stepIndex = 3 -> executeStep4Finalization(c)

\* retryVerification(stepIndex)
\* mutant: a retry of step 3 always counts as a manual submission
retryVerification_alwaysManual(c, stepIndex) ==
  LET isManualSubmission == stepIndex = 2
  IN  verifyStep(c, stepIndex, isManualSubmission, "retry")

retryVerification(c, stepIndex) ==
  LET isManualSubmission == stepIndex = 2 /\ c.steps[2].name = TokenPrompt
  IN  verifyStep(c, stepIndex, isManualSubmission, "retry")

\* mutant: the override flag is left as it was
continueAnyway_keepsFlag(c, stepIndex) ==
  LET c1 == updateStepStatus(c, stepIndex, "completed", Undefined, FALSE)
  IN  IF stepIndex < 3 THEN continueToNextStep(c1, stepIndex + 1)
      ELSE Done(c1, TRUE, "override")

\* continueAnyway(stepIndex)
continueAnyway(c, stepIndex) ==
  LET c1 == updateStepStatus(c, stepIndex, "completed", Undefined, FALSE)
      c2 == Emit([c1 EXCEPT !.showContinueAnyway[stepIndex] = FALSE],
                 ShowContinueAnywayChanged(stepIndex, FALSE))
  IN  IF stepIndex < 3 THEN continueToNextStep(c2, stepIndex + 1)
      ELSE Done(c2, TRUE, "override")


(***************************************************************************)
(* The test environment of the end-to-end test: mock accounts whose data   *)
(* (posts and a profile) hangs on their agent as mockData, a migration     *)
(* simulated by copying it, and the integrity check that compares two      *)
(* accounts.                                                               *)
(***************************************************************************)
PostTexts == {"Hello from test environment!", "Testing migration"}

Posts == UNION {[1..n -> [text : PostTexts]] : n \in 0..MaxPosts}

Profiles ==
  [displayName : {"Test User a", "Test User b"},
   description : {"Test account", ""}]

MockData(posts, profile) == [has |-> TRUE, posts |-> posts, profile |-> profile]

\* an agent that carries no mockData
NoMockData ==
  [has |-> FALSE, posts |-> <<>>, profile |-> [displayName |-> "", description |-> ""]]

TestDataSet == {MockData(posts, profile) : posts \in Posts, profile \in Profiles}

TestAccount(did, handle, mockData) == [did |-> did, handle |-> handle, mockData |-> mockData]

NoAccount == TestAccount("", "", NoMockData)

\* createTestAccount: a new account of the mock PDS, with a new agent
createTestAccount(handle) == TestAccount("did:plc:test", handle, NoMockData)

\* createTestData: posts and a profile put on the agent of the account (the code
\* writes three fixed posts; the data ranges over TestDataSet here)
createTestData(account, data) == [account EXCEPT !.mockData = data]

\* simulateMigration: the target account after the data of the source was copied
simulateMigration(sourceAccount, targetAccount) ==
  IF sourceAccount.mockData.has
    THEN [targetAccount EXCEPT
            !.mockData = MockData([i \in 1..Len(sourceAccount.mockData.posts) |->
                                     sourceAccount.mockData.posts[i]],
                                  [displayName |-> sourceAccount.mockData.profile.displayName,
                                   description |-> sourceAccount.mockData.profile.description])]
    ELSE targetAccount

\* verifyDataIntegrity(sourceAccount, targetAccount)
verifyDataIntegrity(sourceAccount, targetAccount) ==
  LET sourceData == sourceAccount.mockData
      targetData == targetAccount.mockData
      postsMatch ==
        IF ~sourceData.has \/ ~targetData.has THEN FALSE
        ELSE IF Len(sourceData.posts) # Len(targetData.posts) THEN FALSE
        ELSE \A i \in 1..Len(sourceData.posts) :
               sourceData.posts[i].text = targetData.posts[i].text
      profileMatch ==
        IF ~sourceData.has \/ ~targetData.has THEN FALSE
        ELSE /\ sourceData.profile.displayName = targetData.profile.displayName
             /\ sourceData.profile.description = targetData.profile.description
      accountMatch == ~(targetAccount.did = "" \/ targetAccount.handle = "")
  IN  postsMatch /\ profileMatch /\ accountMatch

\* the test before its first step
TestNotStarted ==
  [pc |-> "notStarted", serverAvailable |-> FALSE, sourceAccount |-> NoAccount,
   targetAccountPdsB |-> NoAccount, finalTargetAccountPdsA |-> NoAccount,
   integrityAB |-> FALSE, integrityBA |-> FALSE, integrityRoundTrip |-> FALSE]

(***************************************************************************)
(* The mock Airport client of the flow tests: a tracker of six sub-steps,  *)
(* which the operations of the client complete, and a status query that    *)
(* reduces them to the readiness of a step.                                *)
(***************************************************************************)
SubSteps ==
  {"accountCreated", "preferencesCompleted", "repositoryCompleted", "blobsCompleted",
   "didValidated", "accountActivated"}

\* MockMigrationTracker.resetSteps
resetSteps == [s \in SubSteps |-> FALSE]

\* MockMigrationTracker.completeStep
completeStep(tracker, step) == [tracker EXCEPT ![step] = TRUE]

\* the step argument of checkMigrationStatus: "1".."4", none, or another string
StepArguments == {"1", "2", "3", "4", "undefined", "5"}

\* mutant: step 2 is ready as soon as one of its three sub-steps is completed
checkMigrationStatus_anyOfThree(tracker, step) ==
  CASE step = "1" -> tracker["accountCreated"]
    [] step = "2" -> \/ tracker["preferencesCompleted"]
                     \/ tracker["repositoryCompleted"]
                     \/ tracker["blobsCompleted"]
    [] step = "3" -> tracker["didValidated"]
    [] step = "4" -> tracker["accountActivated"]
    [] OTHER -> \A s \in SubSteps : tracker[s]

\* MockAirportClient.checkMigrationStatus: the ready field of the answer
checkMigrationStatus(tracker, step) ==
  CASE step = "1" -> tracker["accountCreated"]
    [] step = "2" -> /\ tracker["preferencesCompleted"]
                     /\ tracker["repositoryCompleted"]
                     /\ tracker["blobsCompleted"]
    [] step = "3" -> tracker["didValidated"]
    [] step = "4" -> tracker["accountActivated"]
    [] OTHER -> \A s \in SubSteps : tracker[s]

\* the DIDs given to validateDid, and did.startsWith("did:plc:test-")
TestDids == {"did:plc:test-abc-1"}
Dids == TestDids \cup {"did:invalid:malformed"}
startsWithTestPrefix(did) == did \in TestDids

\* the mock client: its tracker, and the last status query (asked) with its answer
MockAirportClient(tracker, asked, ready) ==
  [tracker |-> tracker, asked |-> asked, ready |-> ready]

NewMockAirportClient == MockAirportClient(resetSteps, "notAsked", FALSE)

(***************************************************************************)
(* The state.                                                              *)
(*   steps, retryAttempts, showContinueAnyway : the fields of the client   *)
(*   caller  : the entry-point call in flight (the caller awaits each call *)
(*             before making the next), or idle                            *)
(*   timers  : the bag of setTimeout continuations, pending or running     *)
(*   backend : how the remote endpoints answer                             *)
(*   calls   : entry-point invocations made so far                         *)
(*   completeCount : onMigrationComplete invocations since the last reset  *)
(*   hardFailed : the steps whose write call failed and has not been       *)
(*             accepted since (history, the client keeps no such field)    *)
(*   last    : what the last stretch of code did                           *)
(*   test    : the end-to-end test: its position, its accounts and the     *)
(*             results of its integrity checks                            *)
(*   mock    : the mock Airport client of the flow tests: the sub-steps    *)
(*             its tracker holds and the answer to its last status query   *)
(***************************************************************************)
VARIABLES steps, retryAttempts, showContinueAnyway, caller, timers, backend, calls,
          completeCount, hardFailed, last, test, mock

vars == <<steps, retryAttempts, showContinueAnyway, caller, timers, backend, calls,
          completeCount, hardFailed, last, test, mock>>

clientVars == <<steps, retryAttempts, showContinueAnyway, caller, timers, backend, calls,
                completeCount, hardFailed, last>>

Flow(pc, k, ctx, entry, issued, params) ==
  [pc |-> pc, k |-> k, ctx |-> ctx, entry |-> entry, issued |-> issued, params |-> params]

Idle == Flow("idle", 0, "none", "none", {}, NoParams)

\* a continuation handed to setTimeout
Timer(stepNum) == Flow("timer", stepNum, "none", "timer", {}, NoParams)

\* the client as the next stretch of code finds it
Client ==
  [steps |-> steps, retryAttempts |-> retryAttempts,
   showContinueAnyway |-> showContinueAnyway, events |-> <<>>, scheduled |-> <<>>,
   reset |-> FALSE]

Flows == BagToSet(timers) \cup (IF caller.pc = "idle" THEN {} ELSE {caller})

HttpResponses == IF backend = "alwaysSuccess" THEN {SuccessResponse} ELSE AllHttpResponses

StatusResponses == IF backend = "alwaysSuccess" THEN {StatusReady} ELSE AllStatusResponses

StateResponses ==
  IF backend = "alwaysSuccess"
    THEN {r \in AllStateResponses : ~migrationDisallowed(checkMigrationState(r))}
    ELSE AllStateResponses

RECURSIVE TimersOf(_)
TimersOf(scheduled) ==
  IF scheduled = <<>> THEN EmptyBag
  ELSE SetToBag({Timer(Head(scheduled))}) (+) TimersOf(Tail(scheduled))

Count(events, ev) == Cardinality({i \in 1..Len(events) : events[i] = ev})

NoLast ==
  [entry |-> "none", at |-> "none", k |-> 0, pc |-> "none", ret |-> FALSE,
   cause |-> "none", verdict |-> "none", sent |-> "none", issued |-> {},
   events |-> <<>>, resp |-> NoResponse]

\* the pcs at which a flow awaits the response of a write call
WriteAwaits ==
  {"awaitCreate", "awaitRepo", "awaitBlobs", "awaitPrefs", "awaitIdentityRequest",
   "awaitSign", "awaitFinalize"}

\* the branches that end a phase because its write call was not accepted
WriteFailures == {"writeFailed", "tokenRejected"}

\* flow f ran one stretch of code that ended as out says
Apply(f, resp, out) ==
  LET c == out.c
      issued == f.issued \cup (IF out.sent = "none" THEN {} ELSE {out.sent})
      cont == Flow(out.pc, out.k, out.ctx, f.entry, issued,
                   IF out.pc = "awaitState" THEN f.params ELSE NoParams)
      isTimer == f.entry = "timer"
      others == IF isTimer THEN timers (-) SetToBag({f}) ELSE timers
      kept == IF isTimer /\ out.pc # "done" THEN others (+) SetToBag({cont}) ELSE others
  IN  /\ steps' = c.steps
      /\ retryAttempts' = c.retryAttempts
      /\ showContinueAnyway' = c.showContinueAnyway
      /\ timers' = kept (+) TimersOf(c.scheduled)
      /\ BagCardinality(timers') <= MaxTimers
      /\ caller' = IF isTimer THEN caller ELSE IF out.pc = "done" THEN Idle ELSE cont
      /\ completeCount' =
           (IF c.reset THEN 0 ELSE completeCount) + Count(c.events, MigrationComplete)
      /\ hardFailed' =
           {k \in (IF c.reset THEN {} ELSE hardFailed) :
              /\ c.steps[k].status \in {"error", "verifying"}
              /\ ~(f.pc \in WriteAwaits /\ f.k = k)}
           \cup (IF out.cause \in WriteFailures THEN {f.k} ELSE {})
      /\ last' = [entry |-> f.entry, at |-> f.pc, k |-> f.k, pc |-> out.pc,
                  ret |-> out.ret, cause |-> out.cause, verdict |-> out.verdict,
                  sent |-> out.sent, issued |-> issued, events |-> c.events,
                  resp |-> resp]
      /\ UNCHANGED <<backend, test, mock>>

Init ==
  /\ steps = InitialSteps
  /\ retryAttempts = [i \in StepIndex |-> 0]
  /\ showContinueAnyway = [i \in StepIndex |-> FALSE]
  /\ caller = Idle
  /\ timers = EmptyBag
  /\ backend = "arbitrary"
  /\ calls = 0
  /\ completeCount = 0
  /\ hardFailed = {}
  /\ last = NoLast
  /\ test = TestNotStarted
  /\ mock = NewMockAirportClient

(***************************************************************************)
(* The caller invokes an entry point.                                      *)
(***************************************************************************)
CanCall == caller.pc = "idle" /\ calls < MaxCalls

CallStartMigration(params) ==
  /\ CanCall
  /\ calls' = calls + 1
  /\ Apply(Flow("idle", 0, "none", "startMigration", {}, params), NoResponse,
           startMigration(Client))

CallSubmitIdentityToken(token) ==
  /\ CanCall
  /\ calls' = calls + 1
  /\ Apply(Flow("idle", 2, "none", "submitIdentityToken", {}, NoParams), NoResponse,
           submitIdentityToken(Client, token))

CallRetryVerification(stepIndex) ==
  /\ CanCall
  /\ calls' = calls + 1
  /\ Apply(Flow("idle", stepIndex, "none", "retryVerification", {}, NoParams), NoResponse,
           retryVerification(Client, stepIndex))

CallContinueAnyway(stepIndex) ==
  /\ CanCall
  /\ calls' = calls + 1
  /\ Apply(Flow("idle", stepIndex, "none", "continueAnyway", {}, NoParams), NoResponse,
           continueAnyway(Client, stepIndex))

(***************************************************************************)
(* A timer fires, a response arrives.                                      *)
(***************************************************************************)
TimerFires ==
  \E f \in Flows :
    /\ f.pc = "timer"
    /\ Apply(f, NoResponse, continueToNextStep(Client, f.k))
    /\ UNCHANGED calls

MigrationStateArrives ==
  \E f \in Flows : \E resp \in StateResponses :
    /\ f.pc = "awaitState"
    /\ Apply(f, resp, startMigration_response(Client, f.params, resp))
    /\ UNCHANGED calls

CreateResponseArrives ==
  \E f \in Flows : \E resp \in HttpResponses :
    /\ f.pc = "awaitCreate"
    /\ Apply(f, resp, executeStep1CreateAccount_response(Client, resp))
    /\ UNCHANGED calls

RepoResponseArrives ==
  \E f \in Flows : \E resp \in HttpResponses :
    /\ f.pc = "awaitRepo"
    /\ Apply(f, resp, executeStep2DataMigration_repo(Client, resp))
    /\ UNCHANGED calls

BlobsResponseArrives ==
  \E f \in Flows : \E resp \in HttpResponses :
    /\ f.pc = "awaitBlobs"
    /\ Apply(f, resp, executeStep2DataMigration_blobs(Client, resp))
    /\ UNCHANGED calls

PrefsResponseArrives ==
  \E f \in Flows : \E resp \in HttpResponses :
    /\ f.pc = "awaitPrefs"
    /\ Apply(f, resp, executeStep2DataMigration_prefs(Client, resp))
    /\ UNCHANGED calls

IdentityRequestResponseArrives ==
  \E f \in Flows : \E resp \in HttpResponses :
    /\ f.pc = "awaitIdentityRequest"
    /\ Apply(f, resp, executeStep3IdentityMigration_response(Client, resp))
    /\ UNCHANGED calls

SignResponseArrives ==
  \E f \in Flows : \E resp \in HttpResponses :
    /\ f.pc = "awaitSign"
    /\ Apply(f, resp, submitIdentityToken_response(Client, resp))
    /\ UNCHANGED calls

FinalizeResponseArrives ==
  \E f \in Flows : \E resp \in HttpResponses :
    /\ f.pc = "awaitFinalize"
    /\ Apply(f, resp, executeStep4Finalization_response(Client, resp))
    /\ UNCHANGED calls

StatusResponseArrives ==
  \E f \in Flows : \E resp \in StatusResponses :
    /\ f.pc = "awaitStatus"
    /\ Apply(f, resp, verifyStep_response(Client, f.k, f.ctx, resp))
    /\ UNCHANGED calls

Internal ==
  \/ TimerFires
  \/ MigrationStateArrives
  \/ CreateResponseArrives
  \/ RepoResponseArrives
  \/ BlobsResponseArrives
  \/ PrefsResponseArrives
  \/ IdentityRequestResponseArrives
  \/ SignResponseArrives
  \/ FinalizeResponseArrives
  \/ StatusResponseArrives

Next ==
  \/ \E params \in ParamSet : CallStartMigration(params)
  \/ \E token \in Tokens : CallSubmitIdentityToken(token)
  \/ \E stepIndex \in StepIndex : CallRetryVerification(stepIndex)
  \/ \E stepIndex \in StepIndex : CallContinueAnyway(stepIndex)
  \/ Internal

Spec == Init /\ [][Next]_vars


(***************************************************************************)
(* The happy path: a backend that accepts every write, an oracle that      *)
(* always answers ready, and a caller that starts one migration with valid *)
(* parameters and submits one token once it is asked for it.  Every fetch  *)
(* is answered and every timer fires.                                      *)
(***************************************************************************)
LiveInit ==
  /\ steps = InitialSteps
  /\ retryAttempts = [i \in StepIndex |-> 0]
  /\ showContinueAnyway = [i \in StepIndex |-> FALSE]
  /\ caller = Idle
  /\ timers = EmptyBag
  /\ backend = "alwaysSuccess"
  /\ calls = 0
  /\ completeCount = 0
  /\ hardFailed = {}
  /\ last = NoLast
  /\ test = TestNotStarted
  /\ mock = NewMockAirportClient

StartsOnce == calls = 0 /\ \E params \in ValidParamSet : CallStartMigration(params)

SubmitsWhenAsked ==
  /\ calls = 1
  /\ steps[2].name = TokenPrompt
  /\ CallSubmitIdentityToken("token")

LiveNext == StartsOnce \/ SubmitsWhenAsked \/ Internal

LiveSpec ==
  /\ LiveInit
  /\ [][LiveNext]_vars
  /\ WF_vars(StartsOnce)
  /\ WF_vars(SubmitsWhenAsked)
  /\ WF_vars(TimerFires)
  /\ WF_vars(MigrationStateArrives)
  /\ WF_vars(CreateResponseArrives)
  /\ WF_vars(RepoResponseArrives)
  /\ WF_vars(BlobsResponseArrives)
  /\ WF_vars(PrefsResponseArrives)
  /\ WF_vars(IdentityRequestResponseArrives)
  /\ WF_vars(SignResponseArrives)
  /\ WF_vars(FinalizeResponseArrives)
  /\ WF_vars(StatusResponseArrives)

(***************************************************************************)
(* The end-to-end test, in mock mode (no server: the migration is          *)
(* simulated) and against a running server (the migration is left to the   *)
(* server and the migrated account is looked up as a new test account).    *)
(***************************************************************************)
TestInit ==
  /\ steps = InitialSteps
  /\ retryAttempts = [i \in StepIndex |-> 0]
  /\ showContinueAnyway = [i \in StepIndex |-> FALSE]
  /\ caller = Idle
  /\ timers = EmptyBag
  /\ backend = "arbitrary"
  /\ calls = 0
  /\ completeCount = 0
  /\ hardFailed = {}
  /\ last = NoLast
  /\ mock = NewMockAirportClient
  /\ \E serverAvailable \in BOOLEAN :
       test = [TestNotStarted EXCEPT !.pc = "start", !.serverAvailable = serverAvailable]

\* step "Create test accounts and data"
CreateTestAccountsAndData ==
  \E data \in TestDataSet :
    /\ test.pc = "start"
    /\ test' = [test EXCEPT !.pc = "phase1",
                            !.sourceAccount = createTestData(createTestAccount("source"), data)]
    /\ UNCHANGED <<clientVars, mock>>

\* step "Phase 1: Migrate from PDS A to PDS B"
MigrateToPdsB ==
  /\ test.pc = "phase1"
  /\ test' = [test EXCEPT
                !.pc = "verifyAB",
                !.targetAccountPdsB =
                   IF ~test.serverAvailable
                     THEN simulateMigration(test.sourceAccount, createTestAccount("migrated"))
                     ELSE createTestAccount("migrated")]
  /\ UNCHANGED <<clientVars, mock>>

\* step "Verify data integrity after PDS A -> PDS B migration"
VerifyAfterPdsB ==
  /\ test.pc = "verifyAB"
  /\ test' = [test EXCEPT
                !.pc = "phase2",
                !.integrityAB = verifyDataIntegrity(test.sourceAccount, test.targetAccountPdsB)]
  /\ UNCHANGED <<clientVars, mock>>

\* step "Phase 2: Migrate back from PDS B to PDS A"
MigrateBackToPdsA ==
  /\ test.pc = "phase2"
  /\ test' = [test EXCEPT
                !.pc = "verifyBA",
                !.finalTargetAccountPdsA =
                   IF ~test.serverAvailable
                     THEN simulateMigration(test.targetAccountPdsB, createTestAccount("final"))
                     ELSE createTestAccount("final")]
  /\ UNCHANGED <<clientVars, mock>>

\* step "Verify data integrity after PDS B -> PDS A migration"
VerifyAfterPdsA ==
  /\ test.pc = "verifyBA"
  /\ test' = [test EXCEPT
                !.pc = "verifyRoundTrip",
                !.integrityBA =
                   verifyDataIntegrity(test.targetAccountPdsB, test.finalTargetAccountPdsA)]
  /\ UNCHANGED <<clientVars, mock>>

\* step "Verify complete round-trip data integrity"
VerifyRoundTrip ==
  /\ test.pc = "verifyRoundTrip"
  /\ test' = [test EXCEPT
                !.pc = "verified",
                !.integrityRoundTrip =
                   verifyDataIntegrity(test.sourceAccount, test.finalTargetAccountPdsA)]
  /\ UNCHANGED <<clientVars, mock>>

TestNext ==
  \/ CreateTestAccountsAndData
  \/ MigrateToPdsB
  \/ VerifyAfterPdsB
  \/ MigrateBackToPdsA
  \/ VerifyAfterPdsA
  \/ VerifyRoundTrip

TestSpec == TestInit /\ [][TestNext]_vars

(***************************************************************************)
(* The operations of the mock client, called in any order.                 *)
(***************************************************************************)
MockInit ==
  /\ steps = InitialSteps
  /\ retryAttempts = [i \in StepIndex |-> 0]
  /\ showContinueAnyway = [i \in StepIndex |-> FALSE]
  /\ caller = Idle
  /\ timers = EmptyBag
  /\ backend = "arbitrary"
  /\ calls = 0
  /\ completeCount = 0
  /\ hardFailed = {}
  /\ last = NoLast
  /\ test = TestNotStarted
  /\ mock = NewMockAirportClient

Completes(step) ==
  /\ mock' = MockAirportClient(completeStep(mock.tracker, step), "notAsked", FALSE)
  /\ UNCHANGED <<clientVars, test>>

MockCreateAccount == Completes("accountCreated")

MockMigratePreferences == Completes("preferencesCompleted")

MockMigrateRepository == Completes("repositoryCompleted")

MockMigrateBlobs == Completes("blobsCompleted")

MockValidateDid ==
  \E did \in Dids :
    /\ mock' = MockAirportClient(IF startsWithTestPrefix(did)
                                   THEN completeStep(mock.tracker, "didValidated")
                                   ELSE mock.tracker,
                                 "notAsked", FALSE)
    /\ UNCHANGED <<clientVars, test>>

MockActivateAccount == Completes("accountActivated")

MockCheckMigrationStatus ==
  \E step \in StepArguments :
    /\ mock' = MockAirportClient(mock.tracker, step, checkMigrationStatus(mock.tracker, step))
    /\ UNCHANGED <<clientVars, test>>

MockReset ==
  /\ mock' = MockAirportClient(resetSteps, "notAsked", FALSE)
  /\ UNCHANGED <<clientVars, test>>

MockNext ==
  \/ MockCreateAccount
  \/ MockMigratePreferences
  \/ MockMigrateRepository
  \/ MockMigrateBlobs
  \/ MockValidateDid
  \/ MockActivateAccount
  \/ MockCheckMigrationStatus
  \/ MockReset

MockSpec == MockInit /\ [][MockNext]_vars

(***************************************************************************)
(* Vocabulary of the properties.                                           *)
(***************************************************************************)
AllCompleted == \A i \in StepIndex : steps[i].status = "completed"

LaterStepsPending(index) == \A i \in StepIndex : i > index => steps[i].status = "pending"

\* the last stretch of code was the return of an entry point
Returned(entry) == last.entry = entry /\ last.pc = "done"

\* the last stretch of code handled the response to the fetch awaited at pc
Handled(entry, pc) == last.entry = entry /\ last.at = pc

\* a field that is missing, empty or made of white space only
Blank(v) == v = <<Undefined>> \/ \A i \in 1..Len(v) : v[i] = " "

SomeRequiredBlank(p) == \E i \in 1..4 : Blank(RequiredFields(p)[i])

\* the answer of a write endpoint that is not a success
Rejecting(resp) == resp.net \/ ~resp.ok \/ ~resp.json \/ ~resp.flag

\* the migration-state answer says that migration is not allowed
Disallowing(resp) == ~resp.net /\ resp.ok /\ resp.json /\ ~resp.flag

(***************************************************************************)
(* C1: within one run (from one startMigration until the next) the         *)
(* migration-complete event fires at most once.                            *)
(***************************************************************************)
C1_CompleteAtMostOnce == completeCount <= 1

(***************************************************************************)
(* C2: on the happy path (valid parameters, migration allowed, every write *)
(* accepted, oracle always ready, one token submitted when asked for, all  *)
(* timers firing) all four steps are eventually completed.                 *)
(***************************************************************************)
C2_HappyPathCompletes == <>AllCompleted

C2_Witness == backend = "alwaysSuccess" /\ calls = 2 /\ AllCompleted /\ completeCount >= 1

(***************************************************************************)
(* C3: whenever step 4 is completed, migration-complete has fired in this  *)
(* run.                                                                    *)
(***************************************************************************)
C3_CompletedImpliesEvent == steps[3].status = "completed" => completeCount >= 1

(***************************************************************************)
(* C4: a step becomes completed only on an oracle ready verdict for that   *)
(* step, or by a continueAnyway call for it made while its override flag   *)
(* is true.                                                                *)
(***************************************************************************)
C4_NoGateSkipped ==
  [][\A k \in StepIndex :
       (steps[k].status # "completed" /\ steps'[k].status = "completed") =>
         \/ last'.verdict = "ready" /\ last'.k = k
         \/ /\ last'.entry = "continueAnyway" /\ last'.at = "idle" /\ last'.k = k
            /\ showContinueAnyway[k]]_vars

(***************************************************************************)
(* C5: the override flag of a step is never true while its retry counter   *)
(* is below 2; a not-ready verdict adds one to the counter, leaves the     *)
(* flag false when it is the first failure and sets it (with the           *)
(* override-availability-changed(step, true) event) when it is the second  *)
(* or a later one.                                                         *)
(***************************************************************************)
C5_OverrideGating ==
  /\ [](\A k \in StepIndex : showContinueAnyway[k] => retryAttempts[k] >= 2)
  /\ [][\A k \in StepIndex :
          (last'.at = "awaitStatus" /\ last'.k = k /\ last'.verdict = "notReady") =>
            /\ retryAttempts'[k] = retryAttempts[k] + 1
            /\ retryAttempts[k] = 0 => ~showContinueAnyway'[k]
            /\ retryAttempts[k] >= 1 =>
                 /\ showContinueAnyway'[k]
                 /\ Count(last'.events, ShowContinueAnywayChanged(k, TRUE)) = 1]_vars

C5_Witness ==
  \E k \in StepIndex :
    /\ last.at = "awaitStatus" /\ last.k = k /\ last.verdict = "notReady"
    /\ retryAttempts[k] = 2
    /\ showContinueAnyway[k]

(***************************************************************************)
(* C6: when the migration-state answer disallows migration, startMigration *)
(* returns false with step 1 in error carrying the answer's message, steps *)
(* 2 to 4 pending, and the call has issued no request but the              *)
(* migration-state one.                                                    *)
(***************************************************************************)
C6_DisallowedMigration ==
  (Handled("startMigration", "awaitState") /\ Disallowing(last.resp)) =>
    /\ last.pc = "done"
    /\ last.ret = FALSE
    /\ steps[0].status = "error"
    /\ steps[0].error = last.resp.message
    /\ LaterStepsPending(0)
    /\ last.issued = {"migrationState"}

C6_Witness ==
  /\ Handled("startMigration", "awaitState")
  /\ Disallowing(last.resp)
  /\ last.ret = FALSE
  /\ steps[0].status = "error"

(***************************************************************************)
(* C7: when a required parameter is missing, empty or white space only,    *)
(* startMigration returns false with step 1 in error (not a verification   *)
(* error), steps 2 to 4 pending and no request issued but the              *)
(* migration-state one; with all required parameters present (invite or    *)
(* not) and migration not disallowed it goes on to create the account.     *)
(***************************************************************************)
C7_ParameterValidation ==
  [][(caller.pc = "awaitState" /\ caller' # caller) =>
       /\ SomeRequiredBlank(caller.params) =>
            /\ last'.pc = "done"
            /\ last'.ret = FALSE
            /\ steps'[0].status = "error"
            /\ ~steps'[0].isVerificationError
            /\ \A i \in 1..3 : steps'[i].status = "pending"
            /\ last'.issued = {"migrationState"}
       /\ (~SomeRequiredBlank(caller.params) /\ ~Disallowing(last'.resp)) =>
            /\ last'.pc = "awaitCreate"
            /\ last'.sent = "create"
            /\ steps'[0].status = "in-progress"]_vars

C7_Witness ==
  /\ Handled("startMigration", "awaitState")
  /\ ~Disallowing(last.resp)
  /\ last.cause = "invalidParams"
  /\ last.ret = FALSE
  /\ steps[0].error = "Missing password"

(***************************************************************************)
(* C8 as stated: whenever startMigration returns true, all four steps are  *)
(* completed.                                                              *)
(***************************************************************************)
C8_TrueMeansAllCompleted ==
  (Returned("startMigration") /\ last.ret) => AllCompleted

(***************************************************************************)
(* C8 as amended: whenever startMigration returns true, the oracle has     *)
(* just answered ready for step 1, step 1 is completed, steps 2 to 4 are   *)
(* pending and the continuation into phase 2 is scheduled.                 *)
(***************************************************************************)
C8_TrueMeansStep1Completed ==
  (Returned("startMigration") /\ last.ret) =>
    /\ last.at = "awaitStatus" /\ last.k = 0 /\ last.verdict = "ready"
    /\ steps[0].status = "completed"
    /\ LaterStepsPending(0)
    /\ BagIn(Timer(1), timers)

C8_Witness ==
  /\ Returned("startMigration")
  /\ last.ret
  /\ steps[0].status = "completed"
  /\ steps[1].status = "pending"

(***************************************************************************)
(* C9: when the sign endpoint does not accept the token, submitIdentityToken*)
(* returns false with step 3 in error (not a verification error), step 4   *)
(* pending, the retry counters as they were, and the call has issued no    *)
(* request but the sign one (no status query, no finalize).                *)
(***************************************************************************)
C9_RejectedToken ==
  [][(caller.pc = "awaitSign" /\ caller' # caller /\ Rejecting(last'.resp)) =>
       /\ last'.pc = "done"
       /\ last'.ret = FALSE
       /\ steps'[2].status = "error"
       /\ ~steps'[2].isVerificationError
       /\ steps'[3].status = "pending"
       /\ retryAttempts' = retryAttempts
       /\ showContinueAnyway' = showContinueAnyway
       /\ last'.issued = {"identitySign"}]_vars

C9_Witness ==
  /\ Handled("submitIdentityToken", "awaitSign")
  /\ Rejecting(last.resp)
  /\ ~last.resp.net
  /\ steps[2].name = TokenPrompt
  /\ steps[2].status = "error"
  /\ last.ret = FALSE

(***************************************************************************)
(* C10: a continuation that enters phase 3 while step 3 is in-progress or  *)
(* completed returns true, issues no request, emits no event and leaves    *)
(* steps, retry counters and override flags as they were.                  *)
(***************************************************************************)
C10_Phase3Guard ==
  [][(last'.entry = "timer" /\ last'.at = "timer" /\ last'.k = 2
      /\ steps[2].status \in {"in-progress", "completed"}) =>
       /\ last'.pc = "done"
       /\ last'.ret = TRUE
       /\ last'.sent = "none"
       /\ last'.events = <<>>
       /\ UNCHANGED <<steps, retryAttempts, showContinueAnyway, caller, completeCount>>]_vars

C10_Witness ==
  /\ last.entry = "timer" /\ last.at = "timer" /\ last.k = 2
  /\ last.pc = "done" /\ last.ret = TRUE /\ last.events = <<>>
  /\ steps[2].status \in {"in-progress", "completed"}

(***************************************************************************)
(* Vocabulary of the properties about halting and continuing.              *)
(***************************************************************************)
\* the step taken hands no new continuation to setTimeout
NoContinuationScheduled ==
  \A n \in 1..3 : CopiesIn(Timer(n), timers') <= CopiesIn(Timer(n), timers)

\* a write endpoint answered with a status that is not OK
NonOk(resp) == ~resp.net /\ ~resp.ok

(***************************************************************************)
(* C11: when the oracle answers not-ready for step k, step k ends in error *)
(* flagged as a verification error, its retry counter goes up by exactly   *)
(* one, no continuation is scheduled, and the flow that asked returns      *)
(* false without issuing any further request.                              *)
(***************************************************************************)
C11_VerificationFailureHalts ==
  [][\A k \in StepIndex :
       (last'.at = "awaitStatus" /\ last'.k = k /\ last'.verdict = "notReady") =>
         /\ steps'[k].status = "error"
         /\ steps'[k].isVerificationError
         /\ retryAttempts'[k] = retryAttempts[k] + 1
         /\ last'.pc = "done"
         /\ last'.ret = FALSE
         /\ last'.sent = "none"
         /\ NoContinuationScheduled]_vars

C11_Witness ==
  /\ Handled("submitIdentityToken", "awaitStatus")
  /\ last.k = 2
  /\ last.verdict = "notReady"
  /\ steps[2].status = "error"
  /\ steps[2].isVerificationError
  /\ retryAttempts[2] = 1
  /\ caller = Idle

(***************************************************************************)
(* C12: when the write call of phase 1, 2 or 4 is answered with a status   *)
(* that is not OK, the step ends in error not flagged as a verification    *)
(* error, the flow returns false without having queried the oracle for the *)
(* step, every later step is pending and no continuation is scheduled.     *)
(***************************************************************************)
C12_BusinessFailureHalts ==
  [][(/\ last'.at \in {"awaitCreate", "awaitRepo", "awaitBlobs", "awaitPrefs",
                       "awaitFinalize"}
      /\ NonOk(last'.resp)) =>
       /\ steps'[last'.k].status = "error"
       /\ steps'[last'.k].error # Undefined
       /\ ~steps'[last'.k].isVerificationError
       /\ last'.pc = "done"
       /\ last'.ret = FALSE
       /\ last'.sent = "none"
       /\ StatusCall(last'.k) \notin last'.issued
       /\ \A i \in StepIndex : i > last'.k => steps'[i].status = "pending"
       /\ NoContinuationScheduled]_vars

C12_Witness ==
  /\ Handled("timer", "awaitBlobs")
  /\ NonOk(last.resp)
  /\ steps[0].status = "completed"
  /\ steps[1].status = "error"
  /\ ~steps[1].isVerificationError
  /\ LaterStepsPending(1)

(***************************************************************************)
(* C13: a retryVerification(k) call issues no request but the status query *)
(* of step k, whatever the oracle answers.                                 *)
(***************************************************************************)
C13_RetryOnlyQueries ==
  last.entry = "retryVerification" =>
    /\ last.issued \subseteq {StatusCall(last.k)}
    /\ last.sent \in {"none", StatusCall(last.k)}

C13_Witness ==
  /\ Handled("retryVerification", "awaitStatus")
  /\ last.verdict = "ready"
  /\ last.issued = {StatusCall(last.k)}
  /\ steps[last.k].status = "completed"

(***************************************************************************)
(* C14: a step whose write call failed is not brought to completed, nor a  *)
(* continuation into the next phase scheduled, by a retryVerification call *)
(* for it.                                                                 *)
(***************************************************************************)
C14_RetryCannotCompleteHardFailure ==
  [][\A k \in StepIndex :
       (k \in hardFailed /\ last'.entry = "retryVerification" /\ last'.k = k) =>
         /\ steps'[k].status # "completed"
         /\ NoContinuationScheduled]_vars

(***************************************************************************)
(* C15: continueAnyway(k) marks step k completed with no error, clears its *)
(* override flag with one override-availability-changed(k, false) event,   *)
(* and never queries the oracle for step k; for k < 4 it enters phase k+1  *)
(* in the same stretch and returns what that phase returns, for the last   *)
(* step it issues no request and returns true.                             *)
(***************************************************************************)
FirstWrite(stepNum) ==
  CASE stepNum = 1 -> "repo"
    [] stepNum = 2 -> "identityRequest"
    [] stepNum = 3 -> "finalize"

C15_ContinueAnyway ==
  /\ [][(last'.entry = "continueAnyway" /\ last'.at = "idle") =>
          /\ steps'[last'.k].status = "completed"
          /\ steps'[last'.k].error = Undefined
          /\ ~steps'[last'.k].isVerificationError
          /\ ~showContinueAnyway'[last'.k]
          /\ Count(last'.events, ShowContinueAnywayChanged(last'.k, FALSE)) = 1
          /\ last'.k < 3 =>
               /\ last'.pc # "done"
               /\ last'.sent = FirstWrite(last'.k + 1)
               /\ steps'[last'.k + 1].status = "in-progress"
               /\ caller'.k = last'.k + 1
          /\ last'.k = 3 =>
               /\ last'.pc = "done"
               /\ last'.ret = TRUE
               /\ last'.sent = "none"]_vars
  /\ [][(caller.entry = "continueAnyway" /\ caller' # caller) =>
          /\ last'.pc # "done" => caller'.k = caller.k
          /\ \A j \in StepIndex : StatusCall(j) \in last'.issued => j = caller.k
          /\ last'.pc = "done" =>
               (last'.ret <=> last'.cause \in {"ready", "tokenRequired", "complete"})]_vars

C15_Witness ==
  /\ last.entry = "continueAnyway" /\ last.at = "idle" /\ last.k = 1
  /\ last.sent = "identityRequest"
  /\ steps[1].status = "completed"
  /\ steps[2].status = "in-progress"
  /\ ~showContinueAnyway[1]

(***************************************************************************)
(* C16: a stretch of code that updates the status of steps leaves every    *)
(* step after the last one it updated pending with no error and no         *)
(* verification flag, and every step before the first one it updated as it *)
(* was.                                                                    *)
(***************************************************************************)
UpdatedSteps(events) ==
  {events[n].index : n \in {m \in 1..Len(events) : events[m].type = "step-updated"}}

C16_MonotonicReset ==
  [][(UpdatedSteps(last'.events) # {} /\ last'.cause # "tokenRequired") =>
       /\ \A j \in StepIndex :
            (\A i \in UpdatedSteps(last'.events) : j < i) => steps'[j] = steps[j]
       /\ \A j \in StepIndex :
            (\A i \in UpdatedSteps(last'.events) : j > i) =>
              /\ steps'[j].status = "pending"
              /\ steps'[j].error = Undefined
              /\ ~steps'[j].isVerificationError]_vars

C16_Witness ==
  /\ last.entry = "retryVerification" /\ last.at = "idle" /\ last.k = 1
  /\ steps[0].status = "completed"
  /\ steps[1].status = "verifying"
  /\ steps[2].name = TokenPrompt
  /\ steps[2].status = "pending"

(***************************************************************************)
(* C17: the retry counter of step k changes only by +1 when a verification *)
(* of step k fails, or to 0 when a verification of step k succeeds or      *)
(* startMigration resets the run; a failed verification does add one and a *)
(* successful one does reset.  Failed write calls, continueAnyway,         *)
(* rejected tokens and operations on other steps leave it as it was.       *)
(***************************************************************************)
C17_RetryCounterRule ==
  [][\A k \in StepIndex :
       /\ retryAttempts'[k] # retryAttempts[k] =>
            \/ /\ retryAttempts'[k] = retryAttempts[k] + 1
               /\ last'.at = "awaitStatus" /\ last'.k = k
               /\ last'.verdict \in {"notReady", "threw"}
            \/ /\ retryAttempts'[k] = 0
               /\ \/ last'.at = "awaitStatus" /\ last'.k = k /\ last'.verdict = "ready"
                  \/ last'.entry = "startMigration" /\ last'.at = "idle"
       /\ (last'.at = "awaitStatus" /\ last'.k = k /\ last'.verdict \in {"notReady", "threw"})
            => retryAttempts'[k] = retryAttempts[k] + 1
       /\ (last'.at = "awaitStatus" /\ last'.k = k /\ last'.verdict = "ready")
            => retryAttempts'[k] = 0
       /\ (last'.entry = "startMigration" /\ last'.at = "idle") => retryAttempts'[k] = 0]_vars

C17_Witness ==
  /\ last.cause = "writeFailed"
  /\ last.k = 1
  /\ steps[1].status = "error"
  /\ ~steps[1].isVerificationError
  /\ retryAttempts[1] = 1

(***************************************************************************)
(* C18: every call of an entry point returns a boolean whatever the remote *)
(* endpoints answer (a status that is not OK, a body that is no JSON, a    *)
(* thrown transport error): every stretch of the call ends at the next     *)
(* fetch or at the return, and every answer brings the call strictly       *)
(* nearer to its return.  Whenever the call returns false after having     *)
(* issued a request, some step is in error with a message.                 *)
(***************************************************************************)
EntryPoints == {"startMigration", "submitIdentityToken", "retryVerification", "continueAnyway"}

\* the fetches a call at this point may still have to await
FetchesAhead(f) ==
  CASE f.pc = "idle" -> 0
    [] f.pc = "awaitState" -> 3
    [] f.pc = "awaitCreate" -> 2
    [] f.pc = "awaitRepo" -> 4
    [] f.pc = "awaitBlobs" -> 3
    [] f.pc = "awaitPrefs" -> 2
    [] f.pc = "awaitIdentityRequest" -> 1
    [] f.pc = "awaitSign" -> 4
    [] f.pc = "awaitFinalize" -> 2
    [] f.pc = "awaitStatus" -> IF f.k = 2 /\ f.ctx = "submit" THEN 3 ELSE 1

AwaitPcs == WriteAwaits \cup {"awaitState", "awaitStatus"}

InFlight ==
  (IF caller.pc \in AwaitPcs THEN 1 ELSE 0)
  + BagCardinality([f \in {g \in BagToSet(timers) : g.pc \in AwaitPcs} |-> timers[f]])

C19_OneRequestInFlight == caller.entry # "startMigration" => InFlight <= 1

(***************************************************************************)
(* C20: when the identity request is accepted, phase 3 returns true at     *)
(* once: step 3 keeps its status (in-progress) and gets the token prompt   *)
(* as its name, identity-token-required fires once, the other steps, the   *)
(* counters and the flags stay as they were (step 4 pending), the flow has *)
(* not queried the oracle for step 3, issues no further request and        *)
(* schedules no continuation.                                              *)
(***************************************************************************)
C20_Phase3Suspension ==
  [][(last'.at = "awaitIdentityRequest" /\ ~Rejecting(last'.resp)) =>
       /\ last'.pc = "done"
       /\ last'.ret = TRUE
       /\ last'.sent = "none"
       /\ steps' = [steps EXCEPT ![2].name = TokenPrompt]
       /\ (steps[2].status = "in-progress" /\ steps[3].status = "pending") =>
            (steps'[2].status = "in-progress" /\ steps'[3].status = "pending")
       /\ Count(last'.events, IdentityTokenRequired) = 1
       /\ StatusCall(2) \notin last'.issued
       /\ NoContinuationScheduled
       /\ UNCHANGED <<retryAttempts, showContinueAnyway, completeCount>>]_vars

C20_Witness ==
  /\ Handled("timer", "awaitIdentityRequest")
  /\ last.cause = "tokenRequired"
  /\ last.ret = TRUE
  /\ steps[2].status = "in-progress"
  /\ steps[2].name = TokenPrompt
  /\ steps[3].status = "pending"
  /\ timers = EmptyBag
  /\ caller = Idle

(***************************************************************************)
(* C21 as stated: the status query of step 3 is issued only by             *)
(* submitIdentityToken, once the sign call has accepted the token.         *)
(***************************************************************************)
AfterAcceptedToken ==
  Handled("submitIdentityToken", "awaitSign") /\ ~Rejecting(last.resp)

C21_OnlySubmitQueriesStep3 == last.sent = StatusCall(2) => AfterAcceptedToken

(***************************************************************************)
(* C21 as amended: the status query of step 3 is issued only by            *)
(* submitIdentityToken once the sign call has accepted the token, or by a  *)
(* retryVerification(2) call made while the name of step 3 is the token    *)
(* prompt; no continuation and no continueAnyway call issues it.           *)
(***************************************************************************)
C21_Step3QueryNeedsTokenOrPrompt ==
  last.sent = StatusCall(2) =>
    \/ AfterAcceptedToken
    \/ /\ last.entry = "retryVerification" /\ last.at = "idle" /\ last.k = 2
       /\ steps[2].name = TokenPrompt

C21_Witness ==
  /\ last.sent = StatusCall(2)
  /\ last.entry = "retryVerification"
  /\ steps[2].name = TokenPrompt
  /\ steps[2].status = "verifying"

(***************************************************************************)
(* C22: for every source account holding test data, after the migration    *)
(* from A to B and back from B to A' the integrity check holds for each    *)
(* pair: source and B, B and A', source and A'.                            *)
(***************************************************************************)
C22_RoundTripPreservesData ==
  /\ test.pc \in {"phase2", "verifyBA", "verifyRoundTrip", "verified"} => test.integrityAB
  /\ test.pc \in {"verifyRoundTrip", "verified"} => test.integrityBA
  /\ test.pc = "verified" => test.integrityRoundTrip

(***************************************************************************)
(* C23: step ordering: in every reachable state, if step j is not pending  *)
(* then every step with a lower index is completed.                        *)
(***************************************************************************)
C23_StepOrdering ==
  \A j \in StepIndex :
    steps[j].status # "pending" =>
      \A i \in StepIndex : i < j => steps[i].status = "completed"

(***************************************************************************)
(* C24: within one run every update of a step's status follows             *)
(* pending -> in-progress -> verifying -> completed, with error entered    *)
(* only from in-progress or verifying and verifying re-entered only from   *)
(* error; a step returns to pending only when a step before it is updated. *)
(* The updates of a stretch of code are followed one by one, from the      *)
(* statuses the stretch found (all pending when startMigration began a new *)
(* run).                                                                   *)
(***************************************************************************)
AllowedTransition(from, to) ==
  \/ from = to
  \/ from = "pending" /\ to = "in-progress"
  \/ from = "in-progress" /\ to = "verifying"
  \/ from = "verifying" /\ to = "completed"
  \/ from \in {"in-progress", "verifying"} /\ to = "error"
  \/ from = "error" /\ to = "verifying"

RECURSIVE TransitionsAllowed(_, _, _)
TransitionsAllowed(status, events, n) ==
  IF n > Len(events) THEN TRUE
  ELSE IF events[n].type # "step-updated" THEN TransitionsAllowed(status, events, n + 1)
  ELSE /\ AllowedTransition(status[events[n].index], events[n].step.status)
       /\ TransitionsAllowed(
            [i \in StepIndex |->
               IF i = events[n].index THEN events[n].step.status
               ELSE IF i > events[n].index THEN "pending"
               ELSE status[i]],
            events, n + 1)

C24_StatusTransitions ==
  [][TransitionsAllowed(
       IF last'.entry = "startMigration" /\ last'.at = "idle"
         THEN [i \in StepIndex |-> "pending"]
         ELSE [i \in StepIndex |-> steps[i].status],
       last'.events, 1)]_vars

(***************************************************************************)
(* C25: in every reachable state and for every step, the override flag is  *)
(* true exactly when the retry counter of the step is at least 2.          *)
(***************************************************************************)
C25_FlagIffCounter ==
  \A k \in StepIndex : showContinueAnyway[k] <=> retryAttempts[k] >= 2

\* C25, amended: the flag is true only when the counter is at least 2; whenever
\* the counter changes the flag becomes true exactly when the new value is at
\* least 2; with the counter unchanged the flag changes only to false, by
\* continueAnyway for that step, which leaves the counter as it was.
C25_FlagFollowsCounterUntilOverride ==
  /\ [](\A k \in StepIndex : showContinueAnyway[k] => retryAttempts[k] >= 2)
  /\ [][\A k \in StepIndex :
          /\ retryAttempts'[k] # retryAttempts[k] =>
               (showContinueAnyway'[k] <=> retryAttempts'[k] >= 2)
          /\ (retryAttempts'[k] = retryAttempts[k]
                /\ showContinueAnyway'[k] # showContinueAnyway[k]) =>
               /\ ~showContinueAnyway'[k]
               /\ last'.entry = "continueAnyway" /\ last'.at = "idle" /\ last'.k = k
          /\ (last'.entry = "continueAnyway" /\ last'.at = "idle" /\ last'.k = k) =>
               /\ ~showContinueAnyway'[k]
               /\ retryAttempts'[k] = retryAttempts[k]]_vars

C25_Witness ==
  \E k \in StepIndex :
    /\ last.entry = "continueAnyway" /\ last.at = "idle" /\ last.k = k
    /\ retryAttempts[k] >= 2
    /\ ~showContinueAnyway[k]

(***************************************************************************)
(* C26: in phase 2 the blob call is issued only by the code that received  *)
(* an OK answer to the repository call, the preferences call only by the   *)
(* code that received an OK answer to the blob call, and the phase's       *)
(* status query for step 2 only by the code that received an OK answer to  *)
(* the preferences call, all three calls having been issued by that flow;  *)
(* a sub-call that failed (no answer, or a non-OK one) ends the flow with  *)
(* no further request.  (retryVerification(1) issues its own status query, *)
(* from the idle client.)                                                  *)
(***************************************************************************)
SubCalls == {"awaitRepo", "awaitBlobs", "awaitPrefs"}

AnsweredOk(resp) == ~resp.net /\ resp.ok

C26_Phase2Ordering ==
  /\ last.sent = "blobs" =>
       /\ last.at = "awaitRepo" /\ AnsweredOk(last.resp)
       /\ "repo" \in last.issued
  /\ last.sent = "prefs" =>
       /\ last.at = "awaitBlobs" /\ AnsweredOk(last.resp)
       /\ {"repo", "blobs"} \subseteq last.issued
  /\ (last.sent = StatusCall(1) /\ last.at # "idle") =>
       /\ last.at = "awaitPrefs" /\ AnsweredOk(last.resp)
       /\ {"repo", "blobs", "prefs"} \subseteq last.issued
  /\ (last.at \in SubCalls /\ ~AnsweredOk(last.resp)) =>
       /\ last.pc = "done" /\ ~last.ret
       /\ last.sent = "none"
       /\ steps[1].status = "error"
  /\ \A f \in Flows :
       /\ f.pc = "awaitBlobs" => "repo" \in f.issued
       /\ f.pc = "awaitPrefs" => {"repo", "blobs"} \subseteq f.issued

C26_Witness ==
  /\ last.sent = StatusCall(1) /\ last.at = "awaitPrefs"
  /\ {"repo", "blobs", "prefs"} \subseteq last.issued
  /\ steps[1].status = "verifying"

(***************************************************************************)
(* C27: once an identity-operation request has succeeded in a run (step 3  *)
(* carries the token prompt as its name, until startMigration resets the   *)
(* steps), no stretch of code issues another identity-operation request.   *)
(***************************************************************************)
C27_NoDuplicateIdentityRequest ==
  [][steps[2].name = TokenPrompt => last'.sent # "identityRequest"]_vars

(***************************************************************************)
(* C28: for every remote call of a phase, the status query included, an    *)
(* unreachable server or a body that does not parse puts the step in       *)
(* error, not flagged as a verification error, and leaves the retry        *)
(* counters and the override flags as they were.                           *)
(***************************************************************************)
Malformed(resp) == resp.net \/ ~resp.json

C28_TransportFailuresAreHardFailures ==
  [][(last'.at \in WriteAwaits \cup {"awaitStatus"} /\ Malformed(last'.resp)) =>
       /\ steps'[last'.k].status = "error"
       /\ ~steps'[last'.k].isVerificationError
       /\ retryAttempts' = retryAttempts
       /\ showContinueAnyway' = showContinueAnyway]_vars

(***************************************************************************)
(* C29: when a write call is answered non-OK with a JSON body that has a   *)
(* message, the error of the step is that message; otherwise it is the raw *)
(* body text when there is one.                                            *)
(***************************************************************************)
C29_ErrorIsServerMessage ==
  (last.at \in WriteAwaits /\ NonOk(last.resp)) =>
    /\ steps[last.k].status = "error"
    /\ IF last.resp.json /\ last.resp.message # ""
         THEN steps[last.k].error = last.resp.message
         ELSE last.resp.text # "" => steps[last.k].error = last.resp.text

(***************************************************************************)
(* C30: in each of the four phases a write call answered OK with a body    *)
(* that reports success = false is a failure: the step ends in error, not  *)
(* flagged as a verification error, no status query is issued and the flow *)
(* ends returning false.                                                   *)
(***************************************************************************)
PhaseWrites ==
  {"awaitCreate", "awaitRepo", "awaitBlobs", "awaitPrefs", "awaitIdentityRequest",
   "awaitFinalize"}

C30_UnsuccessfulBodyIsFailure ==
  (last.at \in PhaseWrites /\ AnsweredOk(last.resp) /\ last.resp.json /\ ~last.resp.flag) =>
    /\ steps[last.k].status = "error"
    /\ ~steps[last.k].isVerificationError
    /\ last.sent = "none"
    /\ last.pc = "done" /\ ~last.ret

(***************************************************************************)
(* C31: an observer that starts from four pending steps at each            *)
(* startMigration and applies every step-updated(index, step) event holds  *)
(* the step table of the client: the events a stretch of code emitted,     *)
(* applied to the table it found (the initial one when startMigration      *)
(* began a run), give the table it left.                                   *)
(***************************************************************************)
RECURSIVE ApplyStepEvents(_, _, _)
ApplyStepEvents(observed, events, n) ==
  IF n > Len(events) THEN observed
  ELSE IF events[n].type # "step-updated" THEN ApplyStepEvents(observed, events, n + 1)
  ELSE ApplyStepEvents([observed EXCEPT ![events[n].index] = events[n].step], events, n + 1)

C31_EventsMirrorState ==
  [][ApplyStepEvents(IF last'.entry = "startMigration" /\ last'.at = "idle"
                       THEN InitialSteps ELSE steps,
                     last'.events, 1) = steps']_vars

(***************************************************************************)
(* C32: whatever the state before, when startMigration reaches its first   *)
(* remote call (the availability request) all four steps are pending with  *)
(* their default names and no error or flag, every retry counter is 0 and  *)
(* every override flag is false; no other request was issued and no event  *)
(* emitted before.                                                         *)
(***************************************************************************)
C32_ResetAndRestart ==
  (last.entry = "startMigration" /\ last.at = "idle") =>
    /\ steps = InitialSteps
    /\ \A i \in StepIndex : steps[i].status = "pending" /\ steps[i].error = Undefined
    /\ steps[2].name # TokenPrompt
    /\ retryAttempts = [i \in StepIndex |-> 0]
    /\ showContinueAnyway = [i \in StepIndex |-> FALSE]
    /\ last.sent = "migrationState"
    /\ last.issued = {"migrationState"}
    /\ last.events = <<>>

\* a second call, made while a continuation of the earlier one is still pending
C32_Witness ==
  /\ last.entry = "startMigration" /\ last.at = "idle"
  /\ calls = 2
  /\ timers # EmptyBag
  /\ steps = InitialSteps

(***************************************************************************)
(* C33: a ready verdict for step k (k < 4) starts phase k+1 exactly once:  *)
(* the code that received the verdict either schedules one continuation    *)
(* into phase k+1 or issues the write call of phase k+1 itself, never      *)
(* both, and a continuation that fires issues that write call once.        *)
(***************************************************************************)
StartsOfNextPhase(stepNum) ==
  (CopiesIn(Timer(stepNum + 1), timers') - CopiesIn(Timer(stepNum + 1), timers))
    + (IF last'.sent = FirstWrite(stepNum + 1) THEN 1 ELSE 0)

C33_ReadyStartsNextPhaseOnce ==
  [][/\ (last'.at = "awaitStatus" /\ last'.verdict = "ready" /\ last'.k < 3) =>
          StartsOfNextPhase(last'.k) = 1
     /\ (last'.at = "timer" /\ last'.sent # "none") =>
          /\ last'.sent = FirstWrite(last'.k)
          /\ Cardinality(last'.issued) = 1]_vars

(***************************************************************************)
(* C34: a continuation scheduled in one run does nothing to the next run:  *)
(* while a new startMigration call is in flight (it has scheduled no       *)
(* continuation of its own before it returns), no flow that began as a     *)
(* timer issues a request or changes a step.                               *)
(***************************************************************************)
C34_RunIsolation ==
  [][(caller.entry = "startMigration" /\ last'.entry = "timer") =>
       /\ last'.sent = "none"
       /\ steps' = steps]_vars

(***************************************************************************)
(* C35: in every reachable state a step that is pending has retry counter  *)
(* 0 and override flag false.                                              *)
(***************************************************************************)
C35_PendingStepHasNoRetryState ==
  \A k \in StepIndex :
    steps[k].status = "pending" => retryAttempts[k] = 0 /\ ~showContinueAnyway[k]

(***************************************************************************)
(* C36: in every reachable state a step whose status is not error has no   *)
(* error message and no verification-error flag, and so has every step     *)
(* reported by a step-updated event with another status than error; the    *)
(* flag of step k becomes true only when a verification of step k failed.  *)
(***************************************************************************)
C36_ErrorOnlyInErrorStatus ==
  /\ [](/\ \A k \in StepIndex :
             steps[k].status # "error" =>
               steps[k].error = Undefined /\ ~steps[k].isVerificationError
        /\ \A n \in 1..Len(last.events) :
             (last.events[n].type = "step-updated" /\ last.events[n].step.status # "error") =>
               /\ last.events[n].step.error = Undefined
               /\ ~last.events[n].step.isVerificationError)
  /\ [][\A k \in StepIndex :
          (steps'[k].isVerificationError /\ ~steps[k].isVerificationError) =>
            /\ last'.at = "awaitStatus" /\ last'.k = k
            /\ last'.verdict \in {"notReady", "threw"}]_vars

C36_Witness ==
  \E k \in StepIndex :
    /\ last.entry = "retryVerification" /\ last.at = "idle" /\ last.k = k
    /\ retryAttempts[k] >= 1
    /\ steps[k].status = "verifying"
    /\ steps[k].error = Undefined

(***************************************************************************)
(* C37: retryVerification(2) queries the oracle for step 3 when the name   *)
(* of step 3 is the token prompt; otherwise it returns false with no       *)
(* remote call, no event and every step, retry counter, override flag and  *)
(* pending continuation as it was.                                         *)
(***************************************************************************)
C37_RetryOfStep3 ==
  [][(last'.entry = "retryVerification" /\ last'.at = "idle" /\ last'.k = 2) =>
       IF steps[2].name = TokenPrompt
         THEN /\ last'.sent = StatusCall(2)
              /\ steps'[2].status = "verifying"
         ELSE /\ last'.pc = "done" /\ ~last'.ret
              /\ last'.sent = "none"
              /\ last'.events = <<>>
              /\ steps' = steps
              /\ retryAttempts' = retryAttempts
              /\ showContinueAnyway' = showContinueAnyway
              /\ timers' = timers]_vars

\* the retry of a step 3 whose identity request failed
C37_Witness ==
  /\ last.entry = "retryVerification" /\ last.at = "idle" /\ last.k = 2
  /\ last.pc = "done" /\ ~last.ret
  /\ steps[2].name # TokenPrompt
  /\ steps[2].status = "error"

(***************************************************************************)
(* C38: when the availability request is unreachable or answered non-OK,   *)
(* startMigration emits no state-updated event and goes on as if migration *)
(* were allowed: with a missing parameter step 1 ends in error with the    *)
(* message of the validation, otherwise step 1 is in-progress and the      *)
(* create-account call is issued.                                          *)
(***************************************************************************)
C38_AvailabilityFailsOpen ==
  [][(last'.at = "awaitState" /\ (last'.resp.net \/ ~last'.resp.ok)) =>
       /\ \A n \in 1..Len(last'.events) : last'.events[n].type # "state-updated"
       /\ last'.cause # "disallowed"
       /\ IF validateParams(caller.params) # ""
            THEN /\ last'.pc = "done" /\ ~last'.ret
                 /\ last'.sent = "none"
                 /\ steps'[0].status = "error"
                 /\ steps'[0].error = validateParams(caller.params)
            ELSE /\ last'.sent = "create"
                 /\ steps'[0].status = "in-progress"
                 /\ steps'[0].error = Undefined]_vars

C38_Witness ==
  /\ last.at = "awaitState" /\ last.resp.net
  /\ last.sent = "create"
  /\ steps[0].status = "in-progress"

(***************************************************************************)
(* C39: whatever sub-steps are completed, the mock oracle answers ready    *)
(* for step 1 iff the account is created, for step 2 iff preferences,      *)
(* repository and blobs are all completed, for step 3 iff the DID is       *)
(* validated, for step 4 iff the account is activated, and without a step  *)
(* iff all six sub-steps are completed; with no sub-step completed, as     *)
(* after a reset, every answer is not ready.                               *)
(***************************************************************************)
Completed == {s \in SubSteps : mock.tracker[s]}

C39_MockOracleReduction ==
  /\ mock.asked = "1" => (mock.ready <=> "accountCreated" \in Completed)
  /\ mock.asked = "2" =>
       (mock.ready <=>
          {"preferencesCompleted", "repositoryCompleted", "blobsCompleted"} \subseteq Completed)
  /\ mock.asked = "3" => (mock.ready <=> "didValidated" \in Completed)
  /\ mock.asked = "4" => (mock.ready <=> "accountActivated" \in Completed)
  /\ mock.asked = "undefined" => (mock.ready <=> Completed = SubSteps)
  /\ (mock.asked # "notAsked" /\ Completed = {}) => ~mock.ready

\* step 2 asked with two of its three sub-steps completed
C39_Witness ==
  /\ mock.asked = "2"
  /\ ~mock.ready
  /\ Completed = {"accountCreated", "repositoryCompleted", "blobsCompleted"}

====
